---------------------------- MODULE Spec2Model ----------------------------
(*************************************************************************)
(* KoalaqVision: vector store adapter, model-change reconciliation,      *)
(* match/grouping engine and face preprocessing, as state machines.      *)
(*                                                                       *)
(* Three specifications share the module:                                *)
(*   Spec            the collection life cycle (add_image with its       *)
(*                   dimension gate, deletions, clear, process restart   *)
(*                   with model-change reconciliation);                  *)
(*   SpecMatch       match_face / match_image over a stored collection   *)
(*                   (search_similar, grouping, ranking, truncation);    *)
(*   SpecPreprocess  FacePipeline.preprocess (multi-scale detection).    *)
(*                                                                       *)
(* The vector engine is modelled by the interface the code uses: insert, *)
(* nearest-neighbour query with limit and filter, fetch, delete.  It     *)
(* performs no dimension check of its own, and its requests can fail     *)
(* where the code has a branch for the failure.                          *)
(*************************************************************************)
EXTENDS Integers, Sequences, FiniteSets, TLC

VARIABLES
    collection,      \* stored records: data_object(image_id, object_id, dim, ...)
    next_image_id,   \* number of image ids generated so far (uuid4)
    config_file,     \* persisted model configuration of the mode, or NoConfig
    active_config,   \* model configuration of the running process
    last,            \* what the last store operation was and returned
    ranked,          \* SpecMatch: the engine's ranking of the records for the query
    match,           \* SpecMatch: the last match request and its result
    earlier,         \* SpecMatch: the match request served before it
    pipeline,        \* SpecPreprocess: the face pipeline's loaded models
    pre,             \* SpecPreprocess: the last preprocess call and its result
    server,          \* the process: mode, phase, how its startup went
    files,           \* image files under the upload directory
    request,         \* the last request of a client and its response
    supplied         \* what the client sent with the registration of each image id

vars == <<collection, next_image_id, config_file, active_config, last,
          ranked, match, earlier, pipeline, pre, server, files, request, supplied>>

storeVars == <<collection, next_image_id, config_file, active_config, last>>
matchVars == <<ranked, match, earlier>>
preVars == <<pipeline, pre>>
reqVars == <<server, files, request, supplied>>

------------------------------------------------------------------------
(* Bounds of the model *)

MaxImages == 3

ObjectIds == {"X", "Y"}

(* Model configurations of object mode and the length of the vectors each
   model outputs (model_dims of get_expected_vector_dim). *)
Configs == {"vits16", "vitb16", "vits16_pytorch"}

NoConfig == "none"

Min(a, b) == IF a < b THEN a ELSE b
Max(a, b) == IF a > b THEN a ELSE b

VectorDim(cfg) == IF cfg = "vitb16" THEN 768 ELSE 384

------------------------------------------------------------------------
(* WeaviateClient.get_vector_dimension: the length of the vector of the
   first stored object, None for an empty collection and also None when
   the REST request fails (status other than 200, or an exception). *)

None == -1

SampleDims(coll) == {r.dim : r \in coll}

get_vector_dimension(coll, sampled, request_ok) ==
    IF request_ok /\ coll # {} THEN sampled ELSE None

------------------------------------------------------------------------
(* JSON values and json.dumps / json.loads.  A value is an atom (its
   literal), an array or an object; the members of an object and the items
   of an array are kept in order, an array item has the empty key.  A text
   is the sequence of its tokens. *)

JAtom(tok) == [t |-> "atom", tok |-> tok, items |-> <<>>]
JArr(items) == [t |-> "arr", tok |-> "", items |-> items]
JObj(items) == [t |-> "obj", tok |-> "", items |-> items]
Member(key, value) == [key |-> key, value |-> value]

EmptyObject == JObj(<<>>)

JsonAtoms == {JAtom("null"), JAtom("false"), JAtom("0"), JAtom("1"), JAtom("\"a\"")}

JsonValues ==
    LET inner == JsonAtoms \cup {JObj(<<Member("n", JAtom("\"a\""))>>),
                                 JArr(<<Member("", JAtom("0"))>>)}
    IN  JsonAtoms
          \cup {JArr(<<>>), JArr(<<Member("", JAtom("1"))>>), EmptyObject}
          \cup {JObj(<<Member("k", v)>>) : v \in inner}

RECURSIVE dumps(_)
RECURSIVE dumps_items(_, _)
dumps_items(items, is_object) ==
    IF items = <<>> THEN <<>>
    ELSE (IF is_object THEN <<"\"" \o Head(items).key \o "\"", ":">> ELSE <<>>)
           \o dumps(Head(items).value)
           \o (IF Tail(items) = <<>> THEN <<>> ELSE <<",">>)
           \o dumps_items(Tail(items), is_object)

dumps(value) ==
    IF value.t = "atom" THEN <<value.tok>>
    ELSE IF value.t = "arr" THEN <<"[">> \o dumps_items(value.items, FALSE) \o <<"]">>
    ELSE <<"{">> \o dumps_items(value.items, TRUE) \o <<"}">>

(* json.loads raises on a text that is no JSON document *)
IsJson(text) == \E v \in JsonValues : dumps(v) = text

loads(text) == CHOOSE v \in JsonValues : dumps(v) = text

(* bool(value) of the Python value a JSON value is loaded as *)
PyBool(value) ==
    IF value.t = "atom" THEN value.tok \notin {"null", "false", "0", "\"\""}
    ELSE value.items # <<>>

(* x or {} *)
OrEmptyDict(value) == IF PyBool(value) THEN value ELSE EmptyObject

(* The field custom_data: Optional[Dict[str, Any]] of ObjectData and
   FaceData accepts a dict or None. *)
IsDictOrNone(value) == value.t = "obj" \/ value = JAtom("null")

(* "custom_data": json.dumps(image_data.custom_data) if image_data.custom_data else "{}" *)
stored_custom_data(custom_data) ==
    IF PyBool(custom_data) THEN dumps(custom_data) ELSE <<"{", "}">>

(* The fetches parse the stored text back:
   if data.get("custom_data"): try json.loads(...) except: pass *)
fetched_custom_data(text) ==
    IF text # <<>> /\ IsJson(text) THEN loads(text) ELSE JAtom("str")

(* VectorService.add_image: the checks before the insert.  kind is the
   shape of the incoming vector: "ok", "empty" (empty list or not a list)
   or "nan" (holds None, NaN or Inf). *)
VectorKinds == {"ok", "empty", "nan"}

DimensionGate(db_vector_dim, current_vector_dim) ==
    db_vector_dim # None /\ db_vector_dim # current_vector_dim

add_image_outcome(kind, current_vector_dim, db_vector_dim) ==
    IF kind = "empty" THEN "invalid_vector"
    ELSE IF kind = "nan" THEN "invalid_value"
    ELSE IF DimensionGate(db_vector_dim, current_vector_dim) THEN "dimension_mismatch"
    ELSE "ok"

Idle == [op |-> "none", outcome |-> "none", dim |-> 0, kind |-> "ok", count |-> 0]

(* data_object: the properties of a stored record and the length of its
   vector.  img_url and img_object_url say whether the record carries the
   URL of a saved file ("" otherwise). *)
data_object(image_id, object_id, dim, img_url, img_object_url, custom_data) ==
    [image_id |-> image_id, object_id |-> object_id, dim |-> dim,
     img_url |-> img_url, img_object_url |-> img_object_url,
     custom_data |-> stored_custom_data(custom_data)]

(* VectorService.add_image called with a record that has no files and no
   custom data. *)
AddImage(object_id, kind, request_ok) ==
    /\ next_image_id < MaxImages
    /\ \E sampled \in (IF collection = {} THEN {None} ELSE SampleDims(collection)) :
         LET current_vector_dim == IF kind = "empty" THEN 0 ELSE VectorDim(active_config)
             db_vector_dim == get_vector_dimension(collection, sampled, request_ok)
             outcome == add_image_outcome(kind, current_vector_dim, db_vector_dim)
         IN  /\ next_image_id' = next_image_id + 1
             /\ collection' =
                  IF outcome = "ok"
                  THEN collection \cup {data_object(next_image_id + 1, object_id,
                                                    current_vector_dim, FALSE, FALSE,
                                                    EmptyObject)}
                  ELSE collection
             /\ last' = [op |-> "add_image", outcome |-> outcome,
                         dim |-> current_vector_dim, kind |-> kind, count |-> 0]
    /\ UNCHANGED <<config_file, active_config, matchVars, preVars, reqVars>>

(* Paths and URLs are the sequences of their components between "/": the
   URL /images/upload/X/1/1.jpg is <<"", "images", "upload", "X", "1",
   "1.jpg">>, and <<>> is the empty text. *)
DefaultUploadPath == <<"data", "upload">>

temp_path == <<"data", "temp">>

(* settings.upload_path: data/upload unless the environment sets
   UPLOAD_PATH *)
UploadPaths ==
    {DefaultUploadPath, <<"data", "store">>, <<"storage", "upload">>,
     <<"data", "files", "upload">>}

upload_path ==
    IF "upload_path" \in DOMAIN server THEN server.upload_path ELSE DefaultUploadPath

(* Path.is_relative_to, Path.relative_to and Path.parent *)
is_relative_to(path, other) ==
    Len(other) <= Len(path) /\ SubSeq(path, 1, Len(other)) = other

relative_to(path, other) == SubSeq(path, Len(other) + 1, Len(path))

parent(path) == SubSeq(path, 1, Len(path) - 1)

(* The paths ImageUtils.save_upload_image gives the two files of a
   registration: upload_path / object_id / image_id / image_id.jpg and
   image_id_object.png *)
save_upload_image(object_id, image_id, kind) ==
    upload_path \o <<object_id, ToString(image_id),
                     ToString(image_id) \o (IF kind = "original" THEN ".jpg"
                                            ELSE "_object.png")>>

(* ImageUtils.get_image_url: the path from the parent of the upload (or
   temp) directory on, behind /images/ *)
get_image_url(filepath) ==
    LET rel_path == IF is_relative_to(filepath, upload_path)
                    THEN relative_to(filepath, parent(upload_path))
                    ELSE IF is_relative_to(filepath, temp_path)
                    THEN relative_to(filepath, parent(temp_path))
                    ELSE filepath
    IN  <<"", "images">> \o rel_path

NoPath == <<>>

startswith_images(url) == Len(url) > 2 /\ SubSeq(url, 1, 2) = <<"", "images">>

(* _url_to_path of _delete_physical_files: /images/ at the start becomes
   data/; any other URL has no path. *)
url_to_path(url) ==
    IF startswith_images(url) THEN <<"data">> \o SubSeq(url, 3, Len(url)) ELSE NoPath

(* The path ImageUtils.delete_image_files unlinks:
   img_url.replace('/images/', '').  No component of a saved path is
   "images" here, so only the start of the URL is replaced. *)
delete_image_files(url) ==
    IF startswith_images(url) THEN SubSeq(url, 3, Len(url)) ELSE url

(* The files _delete_physical_files finds for a set of fetched records:
   the URL of a record is get_image_url of the saved path, and the file
   unlinked is the one at _url_to_path of that URL, if it exists. *)
FilesOf(records) ==
    {f \in files : \E r \in records :
        /\ f.image_id = r.image_id
        /\ \/ f.kind = "original" /\ r.img_url
           \/ f.kind = "processed" /\ r.img_object_url
        /\ LET saved == save_upload_image(r.object_id, f.image_id, f.kind)
           IN  url_to_path(get_image_url(saved)) = saved}

(* VectorService.delete_by_image_id: look the record up (a failing lookup
   is swallowed by get_by_image_id and reads as "not found"), delete its
   files, delete the record.  Any exception makes the call return False.
   unlinked are the files whose unlink succeeds; a failing unlink is logged
   and swallowed by _delete_physical_files. *)
(* The DELETE /{image_id} endpoints: the error code of the response for
   the result of delete_by_image_id, which raises nothing itself. *)
delete_image(result) == IF ~result THEN "NOT_FOUND" ELSE "none"

(* A failing unlink ends the call: the record is kept *)
DeleteByImageId_UnlinkRaises(image_id, lookup_ok, store_ok, unlinked) ==
    /\ LET found == IF lookup_ok THEN {r \in collection : r.image_id = image_id} ELSE {}
           deleted == store_ok /\ found # {} /\ unlinked = FilesOf(found)
       IN  /\ unlinked \subseteq FilesOf(found)
           /\ collection' = IF deleted THEN collection \ found ELSE collection
           /\ files' = files \ unlinked
           /\ last' = [op |-> "delete_by_image_id",
                       outcome |-> IF deleted THEN "true" ELSE "false",
                       dim |-> 0, kind |-> "ok",
                       count |-> IF deleted THEN 1 ELSE 0,
                       image_id |-> image_id,
                       before |-> {r \in collection : r.image_id = image_id},
                       store_failed |-> ~lookup_ok \/ (found # {} /\ ~store_ok),
                       unlink_failed |-> FilesOf(found) \ unlinked,
                       response |-> delete_image(deleted)]
    /\ UNCHANGED <<next_image_id, config_file, active_config, matchVars, preVars,
                   server, request, supplied>>

DeleteByImageId(image_id, lookup_ok, store_ok, unlinked) ==
    /\ LET found == IF lookup_ok THEN {r \in collection : r.image_id = image_id} ELSE {}
           deleted == store_ok /\ found # {}
       IN  /\ unlinked \subseteq FilesOf(found)
           /\ collection' = IF deleted THEN collection \ found ELSE collection
           /\ files' = files \ unlinked
           /\ last' = [op |-> "delete_by_image_id",
                       outcome |-> IF deleted THEN "true" ELSE "false",
                       dim |-> 0, kind |-> "ok",
                       count |-> IF deleted THEN 1 ELSE 0,
                       image_id |-> image_id,
                       before |-> {r \in collection : r.image_id = image_id},
                       store_failed |-> ~lookup_ok \/ (found # {} /\ ~store_ok),
                       unlink_failed |-> FilesOf(found) \ unlinked,
                       response |-> delete_image(deleted)]
    /\ UNCHANGED <<next_image_id, config_file, active_config, matchVars, preVars,
                   server, request, supplied>>

(* The number of objects a query without a limit returns: the engine's
   default page size (QUERY_DEFAULTS_LIMIT, 10 unless the deployment sets
   another).  It is 2 here, so that an entity can hold more records than
   one page within MaxImages. *)
QueryDefaultsLimit == 2

(* What a fetch of the records of an entity without a limit can return: a
   page of them, or nothing when the request fails (get_by_object_id
   swallows the exception and returns []). *)
Pages(object_id) ==
    LET images == {r \in collection : r.object_id = object_id}
    IN  {page \in SUBSET images :
            Cardinality(page) = Min(Cardinality(images), QueryDefaultsLimit)}

(* VectorService.get_by_object_id *)
get_by_object_id(page, lookup_ok) == IF lookup_ok THEN page ELSE {}

(* get_stats()["total_images"]: a fetch of up to 10000 objects, 0 when the
   request fails. *)
total_images(coll, stats_ok) == IF stats_ok THEN Cardinality(coll) ELSE 0

(* VectorService.delete_by_object_id: fetch the records of the entity,
   delete their files, fetch them again and delete them one by one.  Both
   fetches take the default page.  An exception part-way leaves the records
   deleted so far deleted and returns 0. *)
(* delete_object and delete_person: the error code of the response for the
   count delete_by_object_id returns. *)
delete_object(count) == IF count = 0 THEN "NOT_FOUND" ELSE "none"

DeleteByObjectId(object_id, page, lookup_ok, done, unlinked) ==
    /\ page \in Pages(object_id)
    /\ LET images == get_by_object_id(page, lookup_ok)
       IN  /\ done \subseteq images
           /\ unlinked \subseteq FilesOf(images)
           /\ collection' = collection \ done
           /\ files' = files \ unlinked
           /\ last' = [op |-> "delete_by_object_id",
                       outcome |-> IF done = images THEN "ok" ELSE "error",
                       dim |-> 0, kind |-> "ok",
                       count |-> IF done = images THEN Cardinality(images) ELSE 0,
                       object_id |-> object_id,
                       before |-> {r \in collection : r.object_id = object_id},
                       total |-> total_images(collection, TRUE),
                       store_failed |-> ~lookup_ok \/ done # images,
                       unlink_failed |-> FilesOf(images) \ unlinked,
                       response |-> delete_object(IF done = images
                                                  THEN Cardinality(images) ELSE 0)]
    /\ UNCHANGED <<next_image_id, config_file, active_config, matchVars, preVars,
                   server, request, supplied>>

(* The number of objects list_objects asks the engine for: limit=10000.
   It is 2 here, so that the collection can hold more records than that
   within MaxImages. *)
ListLimit == 2

(* What fetch_objects(limit=ListLimit) can return *)
ListPages ==
    {page \in SUBSET collection :
        Cardinality(page) = Min(Cardinality(collection), ListLimit)}

(* objects_dict of list_objects: the entity ids of the fetched records,
   each with the number of fetched records that carry it. *)
objects_dict(records) ==
    {[object_id |-> id, image_count |-> Cardinality({r \in records : r.object_id = id})] :
        id \in {r.object_id : r \in records}}

(* VectorService.list_objects: an exception is swallowed and the list is
   empty. *)
ListObjects(page, list_ok) ==
    /\ page \in ListPages
    /\ last' = [op |-> "list_objects", outcome |-> IF list_ok THEN "ok" ELSE "error",
                dim |-> 0, kind |-> "ok", count |-> 0,
                objects |-> IF list_ok THEN objects_dict(page) ELSE {}]
    /\ UNCHANGED <<collection, next_image_id, config_file, active_config, matchVars,
                   preVars, reqVars>>

(* WeaviateClient.clear_collection, called by the /clear endpoints: fetch
   the objects and delete them one by one; an exception part-way is raised
   to the caller with the objects deleted so far gone. *)
ClearCollection(done) ==
    /\ done \subseteq collection
    /\ collection' = collection \ done
    /\ last' = [op |-> "clear_collection",
                outcome |-> IF done = collection THEN "ok" ELSE "error",
                dim |-> 0, kind |-> "ok", count |-> Cardinality(done)]
    /\ UNCHANGED <<next_image_id, config_file, active_config, matchVars, preVars, reqVars>>

(* A saved configuration of the mode that differs in any way, a missing
   one included, asks for a reset *)
check_model_change_Strict(old_mode_config, current_config) ==
    old_mode_config # current_config

(* ModelChangeDetector.check_model_change: a reset is needed when a saved
   configuration of the mode exists and differs from the current one. *)
check_model_change(old_mode_config, current_config) ==
    old_mode_config # NoConfig /\ old_mode_config # current_config

(* old_config.get(self.app_mode, {}) of check_model_change: the entry of
   the mode in the snapshot, nothing when the file is missing or cannot be
   read or parsed. *)
old_mode_config(readable) == IF readable THEN config_file ELSE NoConfig

(* The snapshot is written only when nothing had to be reset *)
reset_collection_if_needed_KeepsSnapshot(cfg, delete_ok, readable) ==
    LET need_reset == check_model_change(old_mode_config(readable), cfg)
    IN  /\ collection' = IF need_reset /\ delete_ok THEN {} ELSE collection
        /\ config_file' = IF need_reset THEN config_file ELSE cfg
        /\ last' = [op |-> "restart",
                    outcome |-> IF need_reset THEN "true" ELSE "false",
                    dim |-> VectorDim(cfg), kind |-> "ok", count |-> 0,
                    config |-> cfg, old_mode_config |-> old_mode_config(readable),
                    readable |-> readable,
                    previous |-> IF last.op = "restart"
                                 THEN [op |-> "restart", outcome |-> last.outcome,
                                       config |-> last.config]
                                 ELSE [op |-> last.op, outcome |-> "none",
                                       config |-> NoConfig]]

(* The process is restarted with configuration cfg; load_models runs
   ModelChangeDetector.reset_collection_if_needed: on a model change the
   collection is deleted and recreated (delete_collection swallows its
   exceptions and returns False, so the collection may survive), and the
   current configuration is saved in either case.  The run records the
   snapshot entry it read and what the operation before it was. *)
reset_collection_if_needed(cfg, delete_ok, readable) ==
    LET need_reset == check_model_change(old_mode_config(readable), cfg)
    IN  /\ collection' = IF need_reset /\ delete_ok THEN {} ELSE collection
        /\ config_file' = cfg
        /\ last' = [op |-> "restart",
                    outcome |-> IF need_reset THEN "true" ELSE "false",
                    dim |-> VectorDim(cfg), kind |-> "ok", count |-> 0,
                    config |-> cfg, old_mode_config |-> old_mode_config(readable),
                    readable |-> readable,
                    previous |-> IF last.op = "restart"
                                 THEN [op |-> "restart", outcome |-> last.outcome,
                                       config |-> last.config]
                                 ELSE [op |-> last.op, outcome |-> "none",
                                       config |-> NoConfig]]

Restart(cfg, delete_ok, readable) ==
    /\ active_config' = cfg
    /\ reset_collection_if_needed(cfg, delete_ok, readable)
    /\ UNCHANGED <<next_image_id, matchVars, preVars, reqVars>>

------------------------------------------------------------------------
(* The collection life cycle *)

NoMatch == [scope |-> <<>>, top_k |-> 0, threshold |-> 0, outcome |-> "none",
            all_results |-> <<>>, grouped |-> <<>>, groups |-> <<>>]

(* result["liveness"] = None: no liveness check was run *)
NoLiveness ==
    [ran |-> FALSE, passed |-> FALSE, reject_reason |-> "None", score |-> 0,
     label |-> 0, real_score |-> 0, paper_score |-> 0, screen_score |-> 0]

NoPre == [image |-> "ok", primary_found |-> 0, fallback_found |-> 0,
          enable_liveness |-> "None", outcome |-> "none",
          face |-> [detector |-> "none", index |-> 0], used_size |-> 0,
          primary_calls |-> 0, fallback_calls |-> 0,
          liveness |-> NoLiveness]

NotLoaded == [app |-> FALSE, app_fallback |-> FALSE, liveness_detector |-> FALSE,
              enable_multi_scale |-> TRUE, enable_liveness |-> TRUE]

AppModes == {"object", "face"}

(* get_vector_dim() of the face pipeline *)
FaceVectorDim == 512

(* settings.face_model_name: the model configuration of face mode *)
FaceConfigs == {"antelopev2", "buffalo_l"}

ModeConfigs(app_mode) == IF app_mode = "face" THEN FaceConfigs ELSE Configs

get_expected_vector_dim(app_mode, cfg) ==
    IF app_mode = "face" THEN FaceVectorDim ELSE VectorDim(cfg)

(* The process before its startup *)
ServerDown(app_mode) ==
    [app_mode |-> app_mode, phase |-> "down", reconciliation |-> "none",
     models |-> "none"]

NoError == [type |-> "none", message |-> "none", cites |-> {}]

(* ValueError and pydantic's validation error become ValidationError (400)
   in the endpoints, any other exception InternalError (500). *)
ValidationError(message, cites) ==
    [type |-> "VALIDATION_ERROR", message |-> message, cites |-> cites]
InternalError(message) ==
    [type |-> "INTERNAL_ERROR", message |-> message, cites |-> {}]

(* f"Liveness check failed: score={liveness_result['score']:.4f},
     label={liveness_result['details']['label_text']}" *)
LivenessCheckFailed ==
    ValidationError("Liveness check failed", {"score", "label_text"})

(* A request without a face *)
NoScores == [real_score |-> 0, paper_score |-> 0, screen_score |-> 0]

NoRequest ==
    [op |-> "none", app_mode |-> "object", image_id |-> 0, enable_liveness |-> FALSE,
     scores |-> NoScores, error |-> NoError, liveness |-> NoLiveness, steps |-> {},
     items |-> {}, subject |-> "n/a"]

Init ==
    /\ collection = {}
    /\ next_image_id = 0
    /\ active_config \in Configs
    /\ config_file = active_config
    /\ last = Idle
    /\ ranked = <<>>
    /\ match = NoMatch
    /\ earlier = NoMatch
    /\ pipeline = NotLoaded
    /\ pre = NoPre
    /\ server = ServerDown("object")
    /\ files = {}
    /\ request = NoRequest
    /\ supplied = {}

Next ==
    \/ \E object_id \in ObjectIds, kind \in VectorKinds, request_ok \in BOOLEAN :
         AddImage(object_id, kind, request_ok)
    \/ \E image_id \in 1..MaxImages, lookup_ok \in BOOLEAN, store_ok \in BOOLEAN,
          unlinked \in SUBSET files :
         DeleteByImageId(image_id, lookup_ok, store_ok, unlinked)
    \/ \E object_id \in ObjectIds, page \in SUBSET collection,
          lookup_ok \in BOOLEAN, done \in SUBSET collection, unlinked \in SUBSET files :
         DeleteByObjectId(object_id, page, lookup_ok, done, unlinked)
    \/ \E done \in SUBSET collection : ClearCollection(done)
    \/ \E page \in SUBSET collection, list_ok \in BOOLEAN : ListObjects(page, list_ok)
    \/ \E cfg \in Configs, delete_ok \in BOOLEAN, readable \in BOOLEAN :
         Restart(cfg, delete_ok, readable)

Spec == Init /\ [][Next]_vars

TypeOK ==
    /\ \A r \in collection : r.image_id \in 1..MaxImages /\ r.object_id \in ObjectIds
    /\ next_image_id \in 0..MaxImages
    /\ config_file \in Configs \cup {NoConfig}
    /\ active_config \in Configs

------------------------------------------------------------------------
(* Matching: search_similar, grouping, ranking *)

MaxRecords == 3
MaxTopK == 2
MaxScope == 2

(* Similarities are counted in units of 1/300, so that 1.0 is One and a
   hundredth is three units; distances are counted in units of 1/150, so
   that similarity = 1 - distance/2 is One - distance.  No value of this
   grid lies half-way between two hundredths. *)
One == 300
Hundredth == 3

Distances == {74, 75, 76, 150}
Thresholds == {150, 225, 226}

(* A scope entry is an id as the endpoints parse it: split on commas and
   stripped, so "X," and " " give the empty string. *)
ScopeIds == ObjectIds \cup {""}
PyNone == "None"

(* round(x, 2) *)
Round2(x) == ((2 * x + Hundredth) \div (2 * Hundredth)) * Hundredth

(* similarity = 1 - (distance / 2) *)
Similarity(distance) == One - distance

(* The slice s[:k] *)
PyHead_Whole(s, k) == s

PyHead(s, k) ==
    IF k >= 0 THEN SubSeq(s, 1, Min(k, Len(s)))
    ELSE SubSeq(s, 1, Max(Len(s) + k, 0))

(* `if filter_object_id:` *)
Truthy(str) == str # PyNone /\ str # ""

QueryLimitCap == 100

(* collection.query.near_vector(limit, filters): the records nearest to the
   query first, restricted to the filter.  The engine is not reached with a
   negative limit: the client rejects it (the v4 request field is unsigned,
   the legacy with_limit raises below 1); search_similar models that as a
   failed search.  A limit of 0 is rejected by the legacy client and means
   the engine's default limit to the v4 client (zero_ok); whatever the
   engine then returns, search_similar slices it to responses[:0]. *)
near_vector(limit, filter_object_id) ==
    LET Keep(r) == ~Truthy(filter_object_id) \/ r.object_id = filter_object_id
    IN  PyHead(SelectSeq(ranked, Keep), Max(limit, 0))

RECURSIVE Responses(_, _)
Responses(items, threshold) ==
    IF items = <<>> THEN <<>>
    ELSE LET item == Head(items)
             similarity == Similarity(item.distance)
             rest == Responses(Tail(items), threshold)
         IN  IF similarity < threshold THEN rest
             ELSE <<[image_id |-> item.image_id, object_id |-> item.object_id,
                     similarity |-> similarity]>> \o rest

(* VectorService.search_similar *)
search_similar_Unsliced(top_k, threshold, filter_object_id, zero_ok) ==
    LET query_limit == Min(top_k * 3, QueryLimitCap)
    IN  IF query_limit < 0 \/ (query_limit = 0 /\ ~zero_ok)
        THEN [ok |-> FALSE, responses |-> <<>>]
        ELSE [ok |-> TRUE,
              responses |-> Responses(near_vector(query_limit, filter_object_id), threshold)]

search_similar(top_k, threshold, filter_object_id, zero_ok) ==
    LET query_limit == Min(top_k * 3, QueryLimitCap)
    IN  IF query_limit < 0 \/ (query_limit = 0 /\ ~zero_ok)
        THEN [ok |-> FALSE, responses |-> <<>>]
        ELSE [ok |-> TRUE,
              responses |-> PyHead(Responses(near_vector(query_limit, filter_object_id),
                                             threshold), top_k)]

(* Step 5 of match_face / match_image: one filtered search per scope entry,
   concatenated, or a single search for 2 * top_k without a scope. *)
RECURSIVE ScopedSearch(_, _, _, _)
ScopedSearch(ids, top_k, threshold, zero_ok) ==
    IF ids = <<>> THEN [ok |-> TRUE, responses |-> <<>>]
    ELSE LET results == search_similar(top_k, threshold, Head(ids), zero_ok)
             rest == ScopedSearch(Tail(ids), top_k, threshold, zero_ok)
         IN  [ok |-> results.ok /\ rest.ok,
              responses |-> results.responses \o rest.responses]

Search(scope, top_k, threshold, zero_ok) ==
    IF scope # <<>> THEN ScopedSearch(scope, top_k, threshold, zero_ok)
    ELSE search_similar(top_k * 2, threshold, PyNone, zero_ok)

(* Step 6: grouped_results, a dict in insertion order *)
GroupIndex(groups, object_id) ==
    IF \E i \in 1..Len(groups) : groups[i].object_id = object_id
    THEN CHOOSE i \in 1..Len(groups) : groups[i].object_id = object_id
    ELSE 0

NewGroup(groups, result) ==
    IF GroupIndex(groups, result.object_id) = 0
    THEN Append(groups, [object_id |-> result.object_id,
                         images |-> <<>>, max_similarity |-> 0])
    ELSE groups

(* The member list keeps only the result seen last *)
AddToGroup_Replace(groups, result) ==
    LET all == NewGroup(groups, result)
        i == GroupIndex(all, result.object_id)
    IN  [all EXCEPT ![i] =
           [object_id |-> all[i].object_id,
            images |-> <<[image_id |-> result.image_id,
                          similarity |-> Round2(result.similarity)]>>,
            max_similarity |-> IF result.similarity > all[i].max_similarity
                               THEN Round2(result.similarity)
                               ELSE all[i].max_similarity]]

(* max_similarity is that of the result seen last *)
AddToGroup_LastSeen(groups, result) ==
    LET all == NewGroup(groups, result)
        i == GroupIndex(all, result.object_id)
    IN  [all EXCEPT ![i] =
           [object_id |-> all[i].object_id,
            images |-> Append(all[i].images, [image_id |-> result.image_id,
                                              similarity |-> Round2(result.similarity)]),
            max_similarity |-> Round2(result.similarity)]]

AddToGroup(groups, result) ==
    LET all == NewGroup(groups, result)
        i == GroupIndex(all, result.object_id)
        g == all[i]
    IN  [all EXCEPT ![i] =
           [object_id |-> g.object_id,
            images |-> Append(g.images, [image_id |-> result.image_id,
                                         similarity |-> Round2(result.similarity)]),
            max_similarity |-> IF result.similarity > g.max_similarity
                               THEN Round2(result.similarity)
                               ELSE g.max_similarity]]

RECURSIVE GroupResults(_, _)
GroupResults(all_results, groups) ==
    IF all_results = <<>> THEN groups
    ELSE GroupResults(Tail(all_results), AddToGroup(groups, Head(all_results)))

(* Step 7: sorted(..., key=max_similarity, reverse=True), a stable sort *)
InsertDescending(sorted, g) ==
    LET before == Cardinality({i \in 1..Len(sorted) :
                                 sorted[i].max_similarity >= g.max_similarity})
    IN  SubSeq(sorted, 1, before) \o <<g>> \o SubSeq(sorted, before + 1, Len(sorted))

(* The groups are left in insertion order *)
SortedDescending_Unsorted(groups, sorted) == sorted \o groups

RECURSIVE SortedDescending(_, _)
SortedDescending(groups, sorted) ==
    IF groups = <<>> THEN sorted
    ELSE SortedDescending(Tail(groups), InsertDescending(sorted, Head(groups)))

(* match_face / match_image from the search on; an exception of a search
   propagates and the request has no result. *)
MatchResult(scope, top_k, threshold, zero_ok) ==
    LET found == Search(scope, top_k, threshold, zero_ok)
        grouped_results == GroupResults(found.responses, <<>>)
        sorted_groups == PyHead(SortedDescending(grouped_results, <<>>), top_k)
    IN  IF found.ok
        THEN [scope |-> scope, top_k |-> top_k, threshold |-> threshold,
              outcome |-> "ok", all_results |-> found.responses,
              grouped |-> grouped_results, groups |-> sorted_groups]
        ELSE [scope |-> scope, top_k |-> top_k, threshold |-> threshold,
              outcome |-> "error", all_results |-> <<>>,
              grouped |-> <<>>, groups |-> <<>>]

(* A match request.  The model follows a first request and one more with
   the same scope and top_k. *)
Match(scope, top_k, threshold, zero_ok) ==
    /\ \/ match = NoMatch
       \/ earlier = NoMatch /\ scope = match.scope /\ top_k = match.top_k
    /\ earlier' = match
    /\ match' = MatchResult(scope, top_k, threshold, zero_ok)
    /\ UNCHANGED <<storeVars, ranked, preVars, reqVars>>

SeqsUpTo(S, n) == UNION {[1..m -> S] : m \in 0..n}

RankedLists ==
    {[i \in 1..Len(f) |-> [image_id |-> i, object_id |-> f[i][1], distance |-> f[i][2]]] :
        f \in {g \in SeqsUpTo(ObjectIds \X Distances, MaxRecords) :
                 \A i \in 1..(Len(g) - 1) : g[i][2] <= g[i + 1][2]}}

Scopes == SeqsUpTo(ScopeIds, MaxScope)
TopKs == (-1)..MaxTopK

InitMatch ==
    /\ collection = {}
    /\ next_image_id = 0
    /\ active_config = "vits16"
    /\ config_file = "vits16"
    /\ last = Idle
    /\ ranked \in RankedLists
    /\ match = NoMatch
    /\ earlier = NoMatch
    /\ pipeline = NotLoaded
    /\ pre = NoPre
    /\ server = ServerDown("object")
    /\ files = {}
    /\ request = NoRequest
    /\ supplied = {}

NextMatch ==
    \E scope \in Scopes, top_k \in TopKs, threshold \in Thresholds, zero_ok \in BOOLEAN :
        Match(scope, top_k, threshold, zero_ok)

SpecMatch == InitMatch /\ [][NextMatch]_vars

------------------------------------------------------------------------
(* Face preprocessing: FacePipeline.load_models and preprocess *)

MaxFaces == 2

det_size == 640
det_size_fallback == 256

Images == {"ok", "none", "empty"}
LivenessArgs == {"None", "True", "False"}

(* FacePipeline.load_models: the primary detector, the fallback detector
   when multi-scale detection is enabled and the two sizes differ, and the
   liveness detector when the settings enable it. *)
LoadModels(enable_multi_scale, enable_liveness) ==
    /\ ~pipeline.app
    /\ pre = NoPre
    /\ pipeline' = [app |-> TRUE,
                    app_fallback |-> enable_multi_scale /\ det_size # det_size_fallback,
                    liveness_detector |-> enable_liveness,
                    enable_multi_scale |-> enable_multi_scale,
                    enable_liveness |-> enable_liveness]
    /\ UNCHANGED <<storeVars, matchVars, pre, reqVars>>

(* The faces a detector returns, in the detector's own order *)
Face(detector, index) == [detector |-> detector, index |-> index]
NoFace == Face("none", 0)

(* face = faces[0] *)
LastFace(detector, found) == Face(detector, found)
FirstFace(detector, found) == Face(detector, 1)

------------------------------------------------------------------------
(* MiniFASNetLiveness.  Scores are counted in tenths.  predict averages the
   softmax outputs of the loaded models, so the three class scores of a
   face add up to one: class 0 is a paper photo, class 1 a real face,
   class 2 a screen. *)

Ten == 10

Scores ==
    {s \in [real_score : 0..Ten, paper_score : 0..Ten, screen_score : 0..Ten] :
        s.real_score + s.paper_score + s.screen_score = Ten}

(* settings.liveness_threshold, liveness_paper_reject_threshold and
   liveness_screen_reject_threshold: 0.6, 0.3 and 0.3 *)
liveness_threshold == 6
liveness_paper_reject_threshold == 3
liveness_screen_reject_threshold == 3

(* label = np.argmax(predictions[0]): the first class of the largest score *)
label(s) ==
    IF s.paper_score >= s.real_score /\ s.paper_score >= s.screen_score THEN 0
    ELSE IF s.real_score >= s.screen_score THEN 1
    ELSE 2

(* real_score / (real_score + fake_score), in tenths; 0.5 for a zero total *)
real_score_normalized(s) ==
    LET total == s.real_score + s.paper_score + s.screen_score
    IN  IF total > 0 THEN (s.real_score * Ten) \div total ELSE 5

(* Any one sub-condition is enough *)
is_real_AnyOf(s, threshold, paper_reject_threshold, screen_reject_threshold) ==
    \/ s.real_score > threshold
    \/ s.paper_score < paper_reject_threshold
    \/ s.screen_score < screen_reject_threshold

is_real(s, threshold, paper_reject_threshold, screen_reject_threshold) ==
    /\ s.real_score > threshold
    /\ s.paper_score < paper_reject_threshold
    /\ s.screen_score < screen_reject_threshold

(* Every rejection is blamed on the real score *)
reject_reason_RealScoreOnly(s, threshold, paper_reject_threshold, screen_reject_threshold) ==
    "real_score"

(* The if / elif chain that words the reason of a rejection; the reason
   names the score it cites. *)
reject_reason(s, threshold, paper_reject_threshold, screen_reject_threshold) ==
    IF s.real_score <= threshold THEN "real_score"
    ELSE IF s.paper_score >= paper_reject_threshold THEN "paper_score"
    ELSE IF s.screen_score >= screen_reject_threshold THEN "screen_score"
    ELSE "None"

(* MiniFASNetLiveness.predict_with_threshold *)
predict_with_threshold(s, threshold, paper_reject_threshold, screen_reject_threshold) ==
    LET passed == is_real(s, threshold, paper_reject_threshold, screen_reject_threshold)
    IN  [ran |-> TRUE, passed |-> passed,
         reject_reason |-> IF passed THEN "None"
                           ELSE reject_reason(s, threshold, paper_reject_threshold,
                                              screen_reject_threshold),
         score |-> real_score_normalized(s), label |-> label(s),
         real_score |-> s.real_score, paper_score |-> s.paper_score,
         screen_score |-> s.screen_score]

------------------------------------------------------------------------
(* FacePipeline.preprocess.  primary_found and fallback_found are the
   numbers of faces the two detectors find in the image; scores are the
   class scores the liveness models give the chosen face.  The detectors
   and the liveness models are total functions of the image. *)
preprocess(image, primary_found, fallback_found, enable_liveness, scores) ==
    LET retry == primary_found = 0 /\ pipeline.app_fallback
        found == IF retry THEN fallback_found ELSE primary_found
        detector == IF retry THEN "fallback" ELSE "primary"
        used_size == IF retry THEN det_size_fallback ELSE det_size
        should_do_liveness == IF enable_liveness = "None" THEN pipeline.enable_liveness
                              ELSE enable_liveness = "True"
        do_liveness == should_do_liveness /\ pipeline.enable_liveness
                         /\ pipeline.liveness_detector
        returns_none(primary_calls, fallback_calls, size) ==
            [image |-> image, primary_found |-> primary_found,
             fallback_found |-> fallback_found, enable_liveness |-> enable_liveness,
             outcome |-> "None", face |-> NoFace, used_size |-> size,
             primary_calls |-> primary_calls, fallback_calls |-> fallback_calls,
             liveness |-> NoLiveness]
    IN  IF ~pipeline.app \/ image # "ok" THEN returns_none(0, 0, 0)
        ELSE IF found = 0 THEN returns_none(1, IF retry THEN 1 ELSE 0, used_size)
        ELSE [image |-> image, primary_found |-> primary_found,
              fallback_found |-> fallback_found, enable_liveness |-> enable_liveness,
              outcome |-> "face", face |-> FirstFace(detector, found), used_size |-> used_size,
              primary_calls |-> 1, fallback_calls |-> IF retry THEN 1 ELSE 0,
              liveness |-> IF ~do_liveness THEN NoLiveness
                           ELSE predict_with_threshold(scores, liveness_threshold,
                                                       liveness_paper_reject_threshold,
                                                       liveness_screen_reject_threshold)]

Preprocess(image, primary_found, fallback_found, enable_liveness, scores) ==
    /\ pre' = preprocess(image, primary_found, fallback_found, enable_liveness, scores)
    /\ UNCHANGED <<storeVars, matchVars, pipeline, reqVars>>

InitPreprocess ==
    /\ collection = {}
    /\ next_image_id = 0
    /\ active_config = "vits16"
    /\ config_file = "vits16"
    /\ last = Idle
    /\ ranked = <<>>
    /\ match = NoMatch
    /\ earlier = NoMatch
    /\ pipeline = NotLoaded
    /\ pre = NoPre
    /\ server = ServerDown("face")
    /\ files = {}
    /\ request = NoRequest
    /\ supplied = {}

NextPreprocess ==
    \/ \E enable_multi_scale \in BOOLEAN, enable_liveness \in BOOLEAN :
         LoadModels(enable_multi_scale, enable_liveness)
    \/ \E image \in Images, primary_found \in 0..MaxFaces, fallback_found \in 0..MaxFaces,
          enable_liveness \in LivenessArgs, scores \in Scores :
         Preprocess(image, primary_found, fallback_found, enable_liveness, scores)

SpecPreprocess == InitPreprocess /\ [][NextPreprocess]_vars

------------------------------------------------------------------------
(* Requests: the registration endpoints with ObjectService.add_image and
   FaceService.add_face, the face match endpoint with FaceService.match_face
   up to its search, and the fetches of stored records. *)

(* How the image of a request is acquired: "unreadable" is an upload that
   Image.open rejects in the endpoint, "invalid" a download that fails
   validate_image (ValueError), "unreachable" a download that fails with a
   RequestException. *)
Acquisitions == {"ok", "unreadable", "invalid", "unreachable"}

AcquisitionError(acquired) ==
    IF acquired = "invalid"
    THEN ValidationError("Downloaded image is invalid or corrupted", {})
    ELSE InternalError("Failed to process image")

(* The custom_data form field: absent, or a text *)
Absent == <<"None">>

(* custom_dict of register_face_file / register_face_url *)
custom_dict(form) ==
    IF form = Absent \/ form = <<>> THEN EmptyObject ELSE loads(form)

(* A request and its response: the class scores of the face in its image,
   the error of a failed request, the steps the request went through, and
   the records it returns, each with its custom_data. *)
Response(op, image_id, enable_liveness, scores, error, liveness, steps, items) ==
    [op |-> op, app_mode |-> server.app_mode, image_id |-> image_id,
     enable_liveness |-> enable_liveness, scores |-> scores, error |-> error,
     liveness |-> liveness, steps |-> steps, items |-> items, subject |-> "n/a"]

Item(image_id, custom_data) == [image_id |-> image_id, custom_data |-> custom_data]

(* The part of VectorService.add_image that decides an insert: the checks,
   then the insert request to the engine. *)
insert_outcome(current_vector_dim, sampled, request_ok, insert_ok) ==
    LET checks == add_image_outcome("ok", current_vector_dim,
                                    get_vector_dimension(collection, sampled, request_ok))
    IN  IF checks # "ok" THEN checks
        ELSE IF insert_ok THEN "ok" ELSE "insert_failed"

InsertError(outcome) ==
    IF outcome = "dimension_mismatch"
    THEN ValidationError("Vector dimension mismatch", {})
    ELSE InternalError("Failed to process image")

UploadFile(image_id, kind) == [image_id |-> image_id, kind |-> kind]

MaxRegistrations == 1

(* The steps of a request, in the order the handlers take them *)
StepsUpTo(order, stage) ==
    {order[i] : i \in {j \in 1..Len(order) :
                         \A k \in 1..j : order[k] # stage \/ k = j}}

FaceRegistrationOrder ==
    <<"open", "json", "acquire", "detect", "liveness", "extract", "save", "model", "insert">>

(* register_face_file / register_face_url with FaceService.add_face *)
RegisterFace(person_id, acquired, save_files, form, enable_liveness, primary_found, fallback_found, scores, features_ok, request_ok, insert_ok) ==
    /\ server.phase = "serving"
    /\ server.app_mode = "face"
    /\ next_image_id < MaxRegistrations
    /\ \E sampled \in (IF collection = {} THEN {None} ELSE SampleDims(collection)) :
         LET image_id == next_image_id + 1
             custom_data == custom_dict(form)
             face_data == preprocess("ok", primary_found, fallback_found,
                                     IF enable_liveness THEN "True" ELSE "False", scores)
             inserted == insert_outcome(FaceVectorDim, sampled, request_ok, insert_ok)
             failed ==
                 IF acquired = "unreadable" THEN "open"
                 ELSE IF ~(form = Absent \/ form = <<>> \/ IsJson(form)) THEN "json"
                 ELSE IF acquired # "ok" THEN "acquire"
                 ELSE IF face_data.outcome = "None" THEN "detect"
                 ELSE IF face_data.liveness.ran /\ ~face_data.liveness.passed THEN "liveness"
                 ELSE IF ~features_ok THEN "extract"
                 ELSE IF ~IsDictOrNone(OrEmptyDict(custom_data)) THEN "model"
                 ELSE IF inserted # "ok" THEN "insert"
                 ELSE "none"
             steps == StepsUpTo(FaceRegistrationOrder, failed)
                        \ (IF save_files THEN {} ELSE {"save"})
             error ==
                 IF failed = "none" THEN NoError
                 ELSE IF failed = "open" THEN InternalError("Failed to register face")
                 ELSE IF failed = "json"
                      THEN ValidationError("Invalid JSON format in custom_data", {})
                 ELSE IF failed = "acquire" THEN AcquisitionError(acquired)
                 ELSE IF failed = "detect"
                      THEN ValidationError("No face detected in image", {})
                 ELSE IF failed = "liveness" THEN LivenessCheckFailed
                 ELSE IF failed = "extract"
                      THEN ValidationError("Failed to extract face features", {})
                 ELSE IF failed = "model" THEN ValidationError("custom_data", {})
                 ELSE InsertError(inserted)
         IN  /\ next_image_id' = IF failed \in {"open", "json"} THEN next_image_id
                                 ELSE image_id
             /\ files' = IF "save" \in steps
                         THEN files \cup {UploadFile(image_id, "original"),
                                          UploadFile(image_id, "processed")}
                         ELSE files
             /\ collection' =
                  IF failed = "none"
                  THEN collection \cup {data_object(image_id, person_id, FaceVectorDim,
                                                    save_files, save_files,
                                                    OrEmptyDict(custom_data))}
                  ELSE collection
             /\ supplied' = IF failed = "none" THEN supplied \cup {Item(image_id, form)}
                            ELSE supplied
             /\ request' = Response("register", IF failed \in {"open", "json"} THEN 0
                                                ELSE image_id,
                                    enable_liveness, scores, error,
                                    IF "liveness" \in steps THEN face_data.liveness
                                    ELSE NoLiveness,
                                    steps,
                                    IF failed = "none"
                                    THEN {Item(image_id, OrEmptyDict(custom_data))} ELSE {})
    /\ UNCHANGED <<config_file, active_config, last, matchVars, preVars, server>>

ObjectRegistrationOrder ==
    <<"open", "acquire", "save", "segment", "extract", "insert">>

(* train_file / train_url with ObjectService.add_image.  The endpoints have
   no custom_data parameter: a custom_data form field of the client is
   dropped and {} is passed on.  background_ok and features_ok say whether
   remove_background and extract_features return a result or None; both
   return None when their model session is not loaded. *)
RegisterObject(object_id, acquired, save_files, form, background_ok, features_ok, request_ok, insert_ok) ==
    /\ server.phase = "serving"
    /\ server.app_mode = "object"
    /\ next_image_id < MaxRegistrations
    /\ \E sampled \in (IF collection = {} THEN {None} ELSE SampleDims(collection)) :
         LET image_id == next_image_id + 1
             custom_data == EmptyObject
             loaded == server.models = "loaded"
             segmenting == server.models \in {"loaded", "partial"}
             inserted == insert_outcome(VectorDim(active_config), sampled,
                                        request_ok, insert_ok)
             failed ==
                 IF acquired = "unreadable" THEN "open"
                 ELSE IF acquired # "ok" THEN "acquire"
                 ELSE IF ~(features_ok /\ loaded) THEN "extract"
                 ELSE IF inserted # "ok" THEN "insert"
                 ELSE "none"
             steps == StepsUpTo(ObjectRegistrationOrder, failed)
                        \ (IF save_files THEN {} ELSE {"save", "segment"})
             processed == "segment" \in steps /\ background_ok /\ segmenting
             error ==
                 IF failed = "none" THEN NoError
                 ELSE IF failed = "open" THEN InternalError("Failed to process image")
                 ELSE IF failed = "acquire" THEN AcquisitionError(acquired)
                 ELSE IF failed = "extract"
                      THEN ValidationError("Failed to extract features", {})
                 ELSE InsertError(inserted)
         IN  /\ next_image_id' = IF failed = "open" THEN next_image_id ELSE image_id
             /\ files' = files
                           \cup (IF "save" \in steps
                                 THEN {UploadFile(image_id, "original")} ELSE {})
                           \cup (IF processed
                                 THEN {UploadFile(image_id, "processed")} ELSE {})
             /\ collection' =
                  IF failed = "none"
                  THEN collection \cup {data_object(image_id, object_id,
                                                    VectorDim(active_config),
                                                    "save" \in steps, processed,
                                                    custom_data)}
                  ELSE collection
             /\ supplied' = IF failed = "none" THEN supplied \cup {Item(image_id, form)}
                            ELSE supplied
             /\ request' = Response("register", IF failed = "open" THEN 0 ELSE image_id,
                                    FALSE, NoScores, error, NoLiveness, steps,
                                    IF failed = "none"
                                    THEN {Item(image_id, custom_data)} ELSE {})
    /\ UNCHANGED <<config_file, active_config, last, matchVars, preVars, server>>

FaceMatchOrder == <<"open", "acquire", "detect", "liveness", "extract", "search">>

(* recognize_face_file / recognize_face_url with FaceService.match_face up
   to its search; the search, the grouping and the ranking of a match are
   the action Match.  search_ok is FALSE when a search raises. *)
MatchFace(acquired, enable_liveness, primary_found, fallback_found, scores, features_ok, search_ok) ==
    /\ server.phase = "serving"
    /\ server.app_mode = "face"
    /\ LET face_data == preprocess("ok", primary_found, fallback_found,
                                   IF enable_liveness THEN "True" ELSE "False", scores)
           failed ==
               IF acquired = "unreadable" THEN "open"
               ELSE IF acquired # "ok" THEN "acquire"
               ELSE IF face_data.outcome = "None" THEN "detect"
               ELSE IF face_data.liveness.ran /\ ~face_data.liveness.passed THEN "liveness"
               ELSE IF ~features_ok THEN "extract"
               ELSE IF ~search_ok THEN "search"
               ELSE "none"
           steps == StepsUpTo(FaceMatchOrder, failed)
           error ==
               IF failed = "none" THEN NoError
               ELSE IF failed = "open" THEN InternalError("Face recognition failed")
               ELSE IF failed = "acquire" THEN AcquisitionError(acquired)
               ELSE IF failed = "detect"
                    THEN ValidationError("No face detected in query image", {})
               ELSE IF failed = "liveness" THEN LivenessCheckFailed
               ELSE IF failed = "extract"
                    THEN ValidationError("Failed to extract face features", {})
               ELSE InternalError("Face recognition failed")
           subject == IF failed \in {"open", "acquire"} THEN "n/a"
                      ELSE IF failed = "detect" THEN "none"
                      ELSE "found"
       IN  request' = [Response("match", 0, enable_liveness, scores, error,
                                IF "liveness" \in steps THEN face_data.liveness
                                ELSE NoLiveness,
                                steps, {})
                       EXCEPT !.subject = subject]
    /\ UNCHANGED <<storeVars, matchVars, preVars, server, files, supplied>>

(* custom_data of a search result, as search_similar parses it: {} when the
   stored text is empty or cannot be parsed. *)
searched_custom_data(text) ==
    IF text # <<>> /\ IsJson(text) THEN loads(text) ELSE EmptyObject

ObjectMatchOrder == <<"open", "acquire", "segment", "extract", "search">>

(* What remove_background makes of the query image: the subject cut out,
   an image with nothing left in it (the mask is empty and getbbox finds
   no content), or None (the model failed or is not loaded). *)
Segmentations == {"subject", "empty", "None"}

(* match_file / match_url with ObjectService.match_image.  The features are
   extracted from the processed image, or from the original one when
   remove_background returns None.  found are the records the search
   returns. *)
MatchObject(acquired, segmented, features_ok, search_ok, found) ==
    /\ server.phase = "serving"
    /\ server.app_mode = "object"
    /\ found \subseteq collection
    /\ LET processed_image ==
               IF server.models \in {"loaded", "partial"} THEN segmented ELSE "None"
           failed ==
               IF acquired = "unreadable" THEN "open"
               ELSE IF acquired # "ok" THEN "acquire"
               ELSE IF ~(features_ok /\ server.models = "loaded") THEN "extract"
               ELSE IF ~search_ok THEN "search"
               ELSE "none"
           steps == StepsUpTo(ObjectMatchOrder, failed)
           error ==
               IF failed = "none" THEN NoError
               ELSE IF failed = "open" THEN InternalError("Failed to match image")
               ELSE IF failed = "acquire" THEN AcquisitionError(acquired)
               ELSE IF failed = "extract"
                    THEN ValidationError("Failed to extract features", {})
               ELSE InternalError("Failed to match image")
           subject == IF "segment" \notin steps THEN "n/a"
                      ELSE IF processed_image = "subject" THEN "found"
                      ELSE "none"
       IN  request' = [Response("match", 0, FALSE, NoScores, error, NoLiveness, steps,
                                IF failed = "none"
                                THEN {Item(r.image_id, searched_custom_data(r.custom_data)) :
                                         r \in found}
                                ELSE {})
                       EXCEPT !.subject = subject]
    /\ UNCHANGED <<storeVars, matchVars, preVars, server, files, supplied>>

(* VectorService.get_by_image_id behind GET /image/{image_id}: a failing
   lookup reads as "not found". *)
GetByImageId(image_id, lookup_ok) ==
    /\ server.phase = "serving"
    /\ LET found == IF lookup_ok THEN {r \in collection : r.image_id = image_id} ELSE {}
       IN  request' = Response("get_by_image_id", image_id, FALSE, NoScores,
                               IF found = {}
                               THEN [type |-> "NOT_FOUND", message |-> "not found",
                                     cites |-> {}]
                               ELSE NoError,
                               NoLiveness, {},
                               {Item(r.image_id, fetched_custom_data(r.custom_data)) :
                                   r \in found})
    /\ UNCHANGED <<storeVars, matchVars, preVars, server, files, supplied>>

(* VectorService.get_by_object_id behind GET /object/{object_id} and
   GET /person/{person_id} *)
GetByObjectId(object_id, page, lookup_ok) ==
    /\ server.phase = "serving"
    /\ page \in Pages(object_id)
    /\ request' = Response("get_by_object_id", 0, FALSE, NoScores, NoError,
                           NoLiveness, {},
                           {Item(r.image_id, fetched_custom_data(r.custom_data)) :
                               r \in get_by_object_id(page, lookup_ok)})
    /\ UNCHANGED <<storeVars, matchVars, preVars, server, files, supplied>>

(* The members of a match result: VectorService.search_similar returns the
   records found, each with its custom_data parsed. *)
SearchSimilar(found) ==
    /\ server.phase = "serving"
    /\ found \subseteq collection
    /\ request' = Response("search_similar", 0, FALSE, NoScores, NoError,
                           NoLiveness, {"search"},
                           {Item(r.image_id, searched_custom_data(r.custom_data)) :
                               r \in found})
    /\ UNCHANGED <<storeVars, matchVars, preVars, server, files, supplied>>

------------------------------------------------------------------------
(* The process: lifespan of main.py with load_models of the mode's pipeline
   and ModelChangeDetector.reset_collection_if_needed. *)

ModelLoads == {"loaded", "partial", "missing"}

(* lifespan: load_models runs the reconciliation and then loads the models;
   an exception of either is logged and the application is started all the
   same.  connect_ok, delete_ok and setup_ok are the outcomes of
   weaviate_client.connect, delete_collection (which swallows its exception
   and returns False) and setup_collection.  load is how far the loading
   gets: "missing" when the first model is missing, "partial" when a later one
   fails (object mode: the feature model after the background model; face
   mode: the liveness detector after the face detectors).  The loading is
   skipped when the reconciliation raises. *)
Lifespan(cfg, connect_ok, delete_ok, setup_ok, load, enable_multi_scale, enable_liveness) ==
    /\ server.phase = "down"
    /\ cfg \in ModeConfigs(server.app_mode)
    /\ LET need_reset == check_model_change(config_file, cfg)
           reconciliation ==
               IF ~need_reset THEN "unchanged"
               ELSE IF ~connect_ok THEN "raised"
               ELSE IF ~delete_ok THEN "kept"
               ELSE IF ~setup_ok THEN "raised"
               ELSE "reset"
           models ==
               IF reconciliation = "raised" THEN "skipped"
               ELSE IF load = "partial" /\ server.app_mode = "face" /\ ~enable_liveness
                    THEN "loaded"
               ELSE load
       IN  /\ active_config' = cfg
           /\ collection' = IF need_reset /\ connect_ok /\ delete_ok THEN {} ELSE collection
           /\ config_file' = IF reconciliation = "raised" THEN config_file ELSE cfg
           /\ last' = IF reconciliation = "raised" THEN last
                      ELSE [op |-> "restart",
                            outcome |-> IF need_reset THEN "true" ELSE "false",
                            dim |-> get_expected_vector_dim(server.app_mode, cfg),
                            kind |-> "ok", count |-> 0]
           /\ pipeline' =
                IF server.app_mode = "face" /\ models \in {"loaded", "partial"}
                THEN [app |-> TRUE,
                      app_fallback |-> enable_multi_scale /\ det_size # det_size_fallback,
                      liveness_detector |-> enable_liveness /\ models = "loaded",
                      enable_multi_scale |-> enable_multi_scale,
                      enable_liveness |-> enable_liveness]
                ELSE [NotLoaded EXCEPT !.enable_multi_scale = enable_multi_scale,
                                       !.enable_liveness = enable_liveness]
           /\ server' = [app_mode |-> server.app_mode, phase |-> "serving",
                         reconciliation |-> reconciliation, models |-> models]
    /\ UNCHANGED <<next_image_id, matchVars, pre, files, request, supplied>>

(* The process exits; the next one starts with pipelines not loaded and
   has served no request yet. *)
Shutdown ==
    /\ server.phase = "serving"
    /\ server' = ServerDown(server.app_mode)
    /\ pipeline' = NotLoaded
    /\ request' = NoRequest
    /\ UNCHANGED <<storeVars, matchVars, pre, files, supplied>>

(* The inputs of the requests of SpecService *)
ServiceScores ==
    {[real_score |-> 8, paper_score |-> 1, screen_score |-> 1],
     [real_score |-> 7, paper_score |-> 3, screen_score |-> 0]}

InitService ==
    /\ collection = {}
    /\ next_image_id = 0
    /\ \E app_mode \in AppModes :
         /\ server = ServerDown(app_mode)
         /\ active_config \in ModeConfigs(app_mode)
    /\ config_file \in {NoConfig, active_config}
    /\ last = Idle
    /\ ranked = <<>>
    /\ match = NoMatch
    /\ earlier = NoMatch
    /\ pipeline = NotLoaded
    /\ pre = NoPre
    /\ files = {}
    /\ request = NoRequest
    /\ supplied = {}

NextService ==
    \/ \E cfg \in Configs \cup FaceConfigs, connect_ok \in BOOLEAN, delete_ok \in BOOLEAN,
          setup_ok \in BOOLEAN, load \in ModelLoads, enable_liveness \in BOOLEAN :
         Lifespan(cfg, connect_ok, delete_ok, setup_ok, load, TRUE, enable_liveness)
    \/ Shutdown
    \/ \E acquired \in Acquisitions, save_files \in BOOLEAN, enable_liveness \in BOOLEAN,
          primary_found \in 0..1, scores \in ServiceScores, features_ok \in BOOLEAN,
          insert_ok \in BOOLEAN :
         RegisterFace("X", acquired, save_files, Absent, enable_liveness,
                      primary_found, 1, scores, features_ok, TRUE, insert_ok)
    \/ \E acquired \in Acquisitions, save_files \in BOOLEAN, background_ok \in BOOLEAN,
          features_ok \in BOOLEAN, insert_ok \in BOOLEAN :
         RegisterObject("X", acquired, save_files, Absent, background_ok, features_ok,
                        TRUE, insert_ok)
    \/ \E acquired \in Acquisitions, enable_liveness \in BOOLEAN, primary_found \in 0..1,
          scores \in ServiceScores, features_ok \in BOOLEAN, search_ok \in BOOLEAN :
         MatchFace(acquired, enable_liveness, primary_found, 1, scores,
                   features_ok, search_ok)
    \/ \E acquired \in Acquisitions, segmented \in Segmentations, features_ok \in BOOLEAN,
          search_ok \in BOOLEAN, found \in SUBSET collection :
         MatchObject(acquired, segmented, features_ok, search_ok, found)

SpecService == InitService /\ [][NextService]_vars

------------------------------------------------------------------------
(* Registrations with custom data and the fetches of the records: the
   process has started without an error. *)

(* The custom_data form field of a registration: absent, empty, the text of
   a JSON value, or a text that is no JSON document. *)
Forms == {Absent, <<>>, <<"{">>} \cup {dumps(v) : v \in JsonValues}

Serving(app_mode) ==
    [app_mode |-> app_mode, phase |-> "serving", reconciliation |-> "unchanged",
     models |-> "loaded"]

InitCustomData ==
    /\ collection = {}
    /\ next_image_id = 0
    /\ \E app_mode \in AppModes :
         /\ server = Serving(app_mode)
         /\ active_config \in ModeConfigs(app_mode)
         /\ pipeline = IF app_mode = "face"
                       THEN [app |-> TRUE, app_fallback |-> TRUE,
                             liveness_detector |-> FALSE, enable_multi_scale |-> TRUE,
                             enable_liveness |-> FALSE]
                       ELSE NotLoaded
    /\ config_file = active_config
    /\ last = Idle
    /\ ranked = <<>>
    /\ match = NoMatch
    /\ earlier = NoMatch
    /\ pre = NoPre
    /\ files = {}
    /\ request = NoRequest
    /\ supplied = {}

NextCustomData ==
    \/ \E person_id \in ObjectIds, form \in Forms, save_files \in BOOLEAN,
          insert_ok \in BOOLEAN :
         RegisterFace(person_id, "ok", save_files, form, FALSE, 1, 1,
                      [real_score |-> 8, paper_score |-> 1, screen_score |-> 1],
                      TRUE, TRUE, insert_ok)
    \/ \E object_id \in ObjectIds, form \in Forms, save_files \in BOOLEAN,
          insert_ok \in BOOLEAN :
         RegisterObject(object_id, "ok", save_files, form, TRUE, TRUE, TRUE, insert_ok)
    \/ \E image_id \in 1..MaxRegistrations, lookup_ok \in BOOLEAN :
         GetByImageId(image_id, lookup_ok)
    \/ \E object_id \in ObjectIds, page \in SUBSET collection, lookup_ok \in BOOLEAN :
         GetByObjectId(object_id, page, lookup_ok)
    \/ \E found \in SUBSET collection : SearchSimilar(found)

SpecCustomData == InitCustomData /\ [][NextCustomData]_vars

------------------------------------------------------------------------
(* Registrations that save their files and the cascading deletes, for
   every configured upload directory. *)

InitFiles ==
    /\ collection = {}
    /\ next_image_id = 0
    /\ \E app_mode \in AppModes, configured \in UploadPaths :
         /\ server = [app_mode |-> app_mode, phase |-> "serving",
                      reconciliation |-> "unchanged", models |-> "loaded",
                      upload_path |-> configured]
         /\ active_config \in ModeConfigs(app_mode)
         /\ pipeline = IF app_mode = "face"
                       THEN [app |-> TRUE, app_fallback |-> TRUE,
                             liveness_detector |-> FALSE, enable_multi_scale |-> TRUE,
                             enable_liveness |-> FALSE]
                       ELSE NotLoaded
    /\ config_file = active_config
    /\ last = Idle
    /\ ranked = <<>>
    /\ match = NoMatch
    /\ earlier = NoMatch
    /\ pre = NoPre
    /\ files = {}
    /\ request = NoRequest
    /\ supplied = {}

NextFiles ==
    \/ \E person_id \in ObjectIds, save_files \in BOOLEAN, insert_ok \in BOOLEAN :
         RegisterFace(person_id, "ok", save_files, Absent, FALSE, 1, 1,
                      [real_score |-> 8, paper_score |-> 1, screen_score |-> 1],
                      TRUE, TRUE, insert_ok)
    \/ \E object_id \in ObjectIds, save_files \in BOOLEAN, background_ok \in BOOLEAN,
          insert_ok \in BOOLEAN :
         RegisterObject(object_id, "ok", save_files, Absent, background_ok, TRUE, TRUE,
                        insert_ok)
    \/ \E image_id \in 1..MaxRegistrations, lookup_ok \in BOOLEAN, store_ok \in BOOLEAN,
          unlinked \in SUBSET files :
         DeleteByImageId(image_id, lookup_ok, store_ok, unlinked)
    \/ \E object_id \in ObjectIds, page \in SUBSET collection,
          lookup_ok \in BOOLEAN, done \in SUBSET collection, unlinked \in SUBSET files :
         DeleteByObjectId(object_id, page, lookup_ok, done, unlinked)

SpecFiles == InitFiles /\ [][NextFiles]_vars

------------------------------------------------------------------------
(* delete_by_object_id running beside a registration: the delete is called
   from a UI handler, which runs on a worker thread, while the endpoints
   run on the event loop, so the calls each of them makes to the store and
   to the disk interleave.  Every call succeeds and the upload directory is
   the default; an entity holds no more records than one page. *)

(* A registration between its steps *)
InFlight(image_id, person_id, steps) ==
    [op |-> "register", app_mode |-> "face", image_id |-> image_id,
     person_id |-> person_id, steps |-> steps]

Registering == request.op = "register" /\ "insert" \notin request.steps

DeletePhase == IF last.op = "delete_by_object_id" THEN last.outcome ELSE "none"

(* FaceService.add_face up to the insert: the files of the new image are
   saved under the upload directory. *)
AddFaceSave(person_id) ==
    /\ ~Registering
    /\ next_image_id < QueryDefaultsLimit
    /\ next_image_id' = next_image_id + 1
    /\ files' = files \cup {UploadFile(next_image_id + 1, "original"),
                            UploadFile(next_image_id + 1, "processed")}
    /\ request' = InFlight(next_image_id + 1, person_id, {"save"})
    /\ UNCHANGED <<collection, config_file, active_config, last, matchVars, preVars,
                   server, supplied>>

(* FaceService.add_face: vector_service.add_image inserts the record with
   the URLs of the saved files. *)
AddFaceInsert ==
    /\ Registering
    /\ collection' = collection \cup {data_object(request.image_id, request.person_id,
                                                   FaceVectorDim, TRUE, TRUE, EmptyObject)}
    /\ request' = [request EXCEPT !.steps = @ \cup {"insert"}]
    /\ UNCHANGED <<next_image_id, config_file, active_config, last, matchVars, preVars,
                   server, files, supplied>>

(* delete_by_object_id: images = self.get_by_object_id(object_id); the
   call returns 0 when there are none. *)
DeleteFetch(object_id) ==
    /\ DeletePhase \in {"none", "ok"}
    /\ LET images == {r \in collection : r.object_id = object_id}
       IN  last' = [op |-> "delete_by_object_id",
                    outcome |-> IF images = {} THEN "ok" ELSE "fetched",
                    dim |-> 0, kind |-> "ok", count |-> 0, object_id |-> object_id,
                    images |-> images, found |-> {}, removed |-> {}]
    /\ UNCHANGED <<collection, next_image_id, config_file, active_config, matchVars,
                   preVars, reqVars>>

(* delete_by_object_id: _delete_physical_files for each fetched record *)
DeleteFiles ==
    /\ DeletePhase = "fetched"
    /\ files' = files \ FilesOf(last.images)
    /\ last' = [last EXCEPT !.outcome = "unlinked"]
    /\ UNCHANGED <<collection, next_image_id, config_file, active_config, matchVars,
                   preVars, server, request, supplied>>

(* delete_by_object_id: the second query for the records of the entity *)
DeleteQuery ==
    /\ DeletePhase = "unlinked"
    /\ last' = [last EXCEPT !.outcome = "queried",
                            !.found = {r \in collection : r.object_id = last.object_id}]
    /\ UNCHANGED <<collection, next_image_id, config_file, active_config, matchVars,
                   preVars, reqVars>>

(* delete_by_object_id: delete_by_id for each record of the second query *)
DeleteRecords ==
    /\ DeletePhase = "queried"
    /\ collection' = collection \ last.found
    /\ last' = [last EXCEPT !.outcome = "ok", !.count = Cardinality(last.found),
                            !.removed = last.found]
    /\ UNCHANGED <<next_image_id, config_file, active_config, matchVars, preVars,
                   reqVars>>

InitConcurrent ==
    /\ collection = {}
    /\ next_image_id = 0
    /\ active_config \in ModeConfigs("face")
    /\ config_file = active_config
    /\ last = Idle
    /\ ranked = <<>>
    /\ match = NoMatch
    /\ earlier = NoMatch
    /\ pipeline = [app |-> TRUE, app_fallback |-> TRUE, liveness_detector |-> FALSE,
                   enable_multi_scale |-> TRUE, enable_liveness |-> FALSE]
    /\ pre = NoPre
    /\ server = Serving("face")
    /\ files = {}
    /\ request = NoRequest
    /\ supplied = {}

NextConcurrent ==
    \/ \E person_id \in ObjectIds : AddFaceSave(person_id)
    \/ AddFaceInsert
    \/ \E object_id \in ObjectIds : DeleteFetch(object_id)
    \/ DeleteFiles
    \/ DeleteQuery
    \/ DeleteRecords

SpecConcurrent == InitConcurrent /\ [][NextConcurrent]_vars

------------------------------------------------------------------------
(* Claims about the collection life cycle *)

(* A well-formed vector whose length differs from the length of every
   stored vector, offered to a collection that holds records. *)
MismatchedInsert ==
    /\ last'.op = "add_image"
    /\ last'.kind = "ok"
    /\ collection # {}
    /\ \A r \in collection : r.dim # last'.dim

(* C1: every add_image call on a collection that holds at least one record,
   with a vector whose length differs from the stored dimension, fails with
   the dimension-mismatch error and leaves the set of records unchanged. *)
C1_MismatchAlwaysRejected ==
    [][MismatchedInsert =>
         (last'.outcome = "dimension_mismatch" /\ collection' = collection)]_vars

(* C2: after any sequence of registrations, deletions, clears and restarts
   with model-change reconciliation, all stored records have feature
   vectors of one and the same length. *)
C2_OneDimension == Cardinality(SampleDims(collection)) <= 1

------------------------------------------------------------------------
(* Claims about matching *)

Range(seq) == {seq[i] : i \in 1..Len(seq)}

Served(m) == m.outcome = "ok"

EntityIds(results) == {r.object_id : r \in Range(results)}

(* How often an image id occurs in a flat result list, and in the member
   lists of a sequence of groups *)
Occurrences(results, image_id) ==
    Cardinality({i \in 1..Len(results) : results[i].image_id = image_id})

Listings(groups, image_id) ==
    Cardinality({p \in (1..Len(groups)) \X (1..(2 * MaxRecords * (MaxScope + 1))) :
                   /\ p[2] <= Len(groups[p[1]].images)
                   /\ groups[p[1]].images[p[2]].image_id = image_id})

(* C3: grouping gives exactly one group per distinct entity id of the flat
   search results, every search result is listed exactly once, under its
   own entity, and nothing else is listed. *)
C3_GroupingPartitions ==
    Served(match) =>
        /\ \A i, j \in 1..Len(match.grouped) :
             match.grouped[i].object_id = match.grouped[j].object_id => i = j
        /\ EntityIds(match.grouped) = EntityIds(match.all_results)
        /\ \A r \in Range(ranked) :
             Listings(match.grouped, r.image_id) = Occurrences(match.all_results, r.image_id)
        /\ \A g \in Range(match.grouped) : \A img \in Range(g.images) :
             \E r \in Range(match.all_results) :
                r.image_id = img.image_id /\ r.object_id = g.object_id

C3_Witness ==
    /\ Served(match)
    /\ Len(match.grouped) >= 2
    /\ Len(match.all_results) > Len(match.grouped)
    /\ match.scope # <<>>

(* The largest similarity among an entity's search results *)
MaxSimilarity(results, object_id) ==
    CHOOSE s \in {r.similarity : r \in {x \in Range(results) : x.object_id = object_id}} :
        \A r \in Range(results) : r.object_id = object_id => r.similarity <= s

(* C4 as stated: max_similarity of every group equals the maximum
   similarity among the entity's search results. *)
C4_MaxIsExactMaximum ==
    Served(match) =>
        \A g \in Range(match.grouped) :
            g.max_similarity = MaxSimilarity(match.all_results, g.object_id)

(* C4, amended: max_similarity of every group equals the maximum similarity
   among the entity's search results rounded to two decimals, in whatever
   order the results arrive. *)
C4_MaxIsRoundedMaximum ==
    Served(match) =>
        \A g \in Range(match.grouped) :
            g.max_similarity = Round2(MaxSimilarity(match.all_results, g.object_id))

C4_Witness ==
    /\ Served(match)
    /\ \E g \in Range(match.grouped) :
         /\ Len(g.images) >= 2
         /\ g.images[1].similarity # g.images[Len(g.images)].similarity
         /\ g.max_similarity # MaxSimilarity(match.all_results, g.object_id)

(* C5: a match result never has more groups than the requested top_k. *)
C5_TopKCap == Served(match) => Len(match.groups) <= match.top_k

C5_Witness ==
    /\ Served(match)
    /\ match.top_k >= 1
    /\ Len(match.grouped) > match.top_k
    /\ Len(match.groups) = match.top_k

(* The entities and the member records of a match result *)
GroupIds(m) == {g.object_id : g \in Range(m.groups)}
Members(m) ==
    UNION {{<<g.object_id, img.image_id>> : img \in Range(g.images)} : g \in Range(m.groups)}

Contains(lower, higher) ==
    /\ GroupIds(higher) \subseteq GroupIds(lower)
    /\ Members(higher) \subseteq Members(lower)
    /\ Len(higher.groups) <= Len(lower.groups)

(* C6: for a fixed collection, query, scope and top_k, what a match returns
   at a higher threshold is contained in what it returns at a lower one. *)
C6_ThresholdMonotone ==
    (Served(match) /\ Served(earlier)) =>
        /\ earlier.threshold <= match.threshold => Contains(earlier, match)
        /\ match.threshold <= earlier.threshold => Contains(match, earlier)

(* C7: with a scope list every group belongs to an entity id of the list
   and has at least one member. *)
C7_OnlyScopedEntities ==
    (Served(match) /\ match.scope # <<>>) =>
        \A g \in Range(match.groups) :
            g.object_id \in Range(match.scope) /\ Len(g.images) >= 1

(* Stored records of an entity at or above the threshold *)
Matching(object_id, threshold) ==
    {r.image_id : r \in {x \in Range(ranked) :
                           x.object_id = object_id /\ Similarity(x.distance) >= threshold}}

ListedIds(g) == {img.image_id : img \in Range(g.images)}

(* C8 as stated: every group lists all stored records of its entity at or
   above the threshold, whatever top_k is. *)
C8_AllMatchingRecordsListed ==
    Served(match) =>
        \A g \in Range(match.groups) :
            ListedIds(g) = Matching(g.object_id, match.threshold)

(* What the searches of a request return, stated from the stored records:
   the most similar records at or above the threshold, of the entity of
   each scope entry (of all entities for an empty entry) up to top_k, or of
   all entities up to 2 * top_k without a scope, never more than 100. *)
Eligible(filter_object_id, threshold) ==
    LET Keep(r) == /\ Similarity(r.distance) >= threshold
                   /\ (filter_object_id \in {"", PyNone} \/ r.object_id = filter_object_id)
    IN  SelectSeq(ranked, Keep)

Returned(filter_object_id, threshold, n) ==
    SubSeq(Eligible(filter_object_id, threshold), 1,
           Min(Min(n, QueryLimitCap), Len(Eligible(filter_object_id, threshold))))

ReturnedIds(m, object_id) ==
    IF m.scope = <<>>
    THEN {r.image_id : r \in {x \in Range(Returned(PyNone, m.threshold, 2 * m.top_k)) :
                                x.object_id = object_id}}
    ELSE UNION {{r.image_id : r \in {x \in Range(Returned(m.scope[i], m.threshold, m.top_k)) :
                                       x.object_id = object_id}} : i \in 1..Len(m.scope)}

(* C8, amended: every group lists every record of its entity that the
   searches returned, not only the best one; records of the entity beyond
   the search limits are not listed. *)
C8_AllReturnedRecordsListed ==
    Served(match) =>
        \A g \in Range(match.groups) :
            /\ ListedIds(g) = ReturnedIds(match, g.object_id)
            /\ ListedIds(g) \subseteq Matching(g.object_id, match.threshold)

C8_Witness ==
    /\ Served(match)
    /\ \E g \in Range(match.groups) :
         /\ Len(g.images) >= 2
         /\ ListedIds(g) # Matching(g.object_id, match.threshold)

(* Position at which an entity is first seen in the flat search results *)
FirstSeen(results, object_id) ==
    CHOOSE i \in 1..Len(results) :
        /\ results[i].object_id = object_id
        /\ \A j \in 1..(i - 1) : results[j].object_id # object_id

Precedes(results, g, h) ==
    \/ g.max_similarity > h.max_similarity
    \/ /\ g.max_similarity = h.max_similarity
       /\ FirstSeen(results, g.object_id) < FirstSeen(results, h.object_id)

(* C9: the groups of a result are in order of non-increasing max_similarity,
   groups of equal max_similarity in the order their entities were first
   seen, and they are the first top_k groups of that order. *)
C9_RankedAndTruncated ==
    Served(match) =>
        /\ Len(match.groups) = Min(match.top_k, Len(match.grouped))
        /\ Range(match.groups) \subseteq Range(match.grouped)
        /\ \A i, j \in 1..Len(match.groups) :
             i < j => Precedes(match.all_results, match.groups[i], match.groups[j])
        /\ \A g \in Range(match.groups) :
             \A h \in Range(match.grouped) \ Range(match.groups) :
                Precedes(match.all_results, g, h)

C9_Witness ==
    /\ Served(match)
    /\ match.top_k = 1
    /\ Len(match.groups) = 1
    /\ \E h \in Range(match.grouped) \ Range(match.groups) :
         h.max_similarity = match.groups[1].max_similarity

------------------------------------------------------------------------
(* Claims about face preprocessing *)

(* C10: when the primary detector finds no face and a configured fallback
   detector finds at least one, preprocess returns the fallback detector's
   first face, has consulted the fallback exactly once, and the detection
   size it reports as used is the fallback size. *)
C10_FallbackUsed ==
    (/\ pipeline.app /\ pipeline.app_fallback
     /\ pre.outcome # "none" /\ pre.image = "ok"
     /\ pre.primary_found = 0 /\ pre.fallback_found >= 1) =>
        /\ pre.outcome = "face"
        /\ pre.face = Face("fallback", 1)
        /\ pre.primary_calls = 1
        /\ pre.fallback_calls = 1
        /\ pre.used_size = det_size_fallback

C10_Witness ==
    /\ pipeline.app_fallback
    /\ pre.primary_found = 0
    /\ pre.fallback_found = MaxFaces
    /\ pre.outcome = "face"
    /\ pre.face.detector = "fallback"

------------------------------------------------------------------------
(* Claims about the liveness classifier *)

LivenessRan == pre.outcome = "face" /\ pre.liveness.ran

(* C11: predict_with_threshold reports a face as passed exactly when
   real_score > threshold, paper_score < paper_reject_threshold and
   screen_score < screen_reject_threshold all hold; a face that fails any
   one of the three is rejected. *)
C11_StrictAnd ==
    LivenessRan =>
        /\ pre.liveness.passed <=>
             (/\ pre.liveness.real_score > liveness_threshold
              /\ pre.liveness.paper_score < liveness_paper_reject_threshold
              /\ pre.liveness.screen_score < liveness_screen_reject_threshold)
        /\ pre.liveness.real_score <= liveness_threshold => ~pre.liveness.passed
        /\ pre.liveness.paper_score >= liveness_paper_reject_threshold => ~pre.liveness.passed
        /\ pre.liveness.screen_score >= liveness_screen_reject_threshold => ~pre.liveness.passed

(* A face whose real score alone would pass is rejected for its screen score *)
C11_Witness ==
    /\ LivenessRan
    /\ ~pre.liveness.passed
    /\ pre.liveness.real_score > liveness_threshold
    /\ pre.liveness.paper_score < liveness_paper_reject_threshold
    /\ pre.liveness.screen_score >= liveness_screen_reject_threshold

(* The sub-condition a rejection reason names has failed *)
ReasonHolds(l) ==
    \/ l.reject_reason = "real_score" /\ l.real_score <= liveness_threshold
    \/ l.reject_reason = "paper_score" /\ l.paper_score >= liveness_paper_reject_threshold
    \/ l.reject_reason = "screen_score" /\ l.screen_score >= liveness_screen_reject_threshold

(* C12: every rejection carries a reason, the reason names a sub-condition
   that failed, and a face with real_score above the threshold and
   paper_score at or above the paper reject threshold is rejected with the
   reason that cites the paper threshold; an accepted face has no reason. *)
C12_ReasonNamesFailure ==
    LivenessRan =>
        /\ ~pre.liveness.passed => ReasonHolds(pre.liveness)
        /\ (/\ pre.liveness.real_score > liveness_threshold
            /\ pre.liveness.paper_score >= liveness_paper_reject_threshold) =>
              (~pre.liveness.passed /\ pre.liveness.reject_reason = "paper_score")
        /\ pre.liveness.passed => pre.liveness.reject_reason = "None"

C12_Witness ==
    /\ LivenessRan
    /\ ~pre.liveness.passed
    /\ pre.liveness.real_score > liveness_threshold
    /\ pre.liveness.paper_score >= liveness_paper_reject_threshold
    /\ pre.liveness.reject_reason = "paper_score"

------------------------------------------------------------------------
(* Claims about delete_by_object_id *)

EntityDeleted == last.op = "delete_by_object_id"

(* C15: after delete_by_object_id(id) returns, get_by_object_id(id) returns
   an empty list, the total that get_stats reports has gone down by exactly
   the number of records the entity had before the call, and the returned
   count is that number, however many records the entity had. *)
C15_EntityFullyDeleted ==
    EntityDeleted =>
        /\ \A page \in Pages(last.object_id) : get_by_object_id(page, TRUE) = {}
        /\ total_images(collection, TRUE) = last.total - Cardinality(last.before)
        /\ last.count = Cardinality(last.before)

(* The entity held more records than one page of a fetch without a limit,
   and every request of the call succeeded. *)
C15_MoreThanOnePage ==
    /\ EntityDeleted
    /\ last.outcome = "ok"
    /\ Cardinality(last.before) > QueryDefaultsLimit
    /\ last.count = QueryDefaultsLimit
    /\ \E r \in collection : r.object_id = last.object_id

------------------------------------------------------------------------
(* Claims about the startup reconciliation *)

(* reset_collection_if_needed has just returned from its reset branch *)
Reconciled == last.op = "restart" /\ last.outcome = "true"

(* C17: when reset_collection_if_needed runs with an active configuration
   that differs from the one the stored vectors were produced with, then on
   its return the collection holds none of the earlier records and the
   snapshot equals the active configuration: the snapshot is never the new
   configuration while old records survive. *)
C17_ClearedBeforeSnapshot ==
    Reconciled => collection = {} /\ config_file = active_config

(* delete_collection failed: the old records are still there under the
   snapshot of the new configuration. *)
C17_OldRecordsUnderNewSnapshot ==
    /\ Reconciled
    /\ config_file = active_config
    /\ \E r \in collection : r.dim # VectorDim(active_config)

------------------------------------------------------------------------
(* Claims about the requests of face mode and the liveness gate *)

FaceRequest == request.app_mode = "face" /\ request.op \in {"register", "match"}

(* A face was detected in the image of the request, and its class scores do
   not satisfy the liveness decision rule. *)
SpoofedFace ==
    /\ "liveness" \in request.steps
    /\ ~is_real(request.scores, liveness_threshold, liveness_paper_reject_threshold,
                liveness_screen_reject_threshold)

(* C13: in face mode a match or registration request made with the liveness
   toggle on never proceeds to feature extraction, vector search or
   persistence for a face that fails the liveness decision rule; the
   request ends in a validation error instead. *)
C13_LivenessIsHardGate ==
    (FaceRequest /\ request.enable_liveness /\ SpoofedFace) =>
        /\ request.steps \cap {"extract", "save", "model", "insert", "search"} = {}
        /\ request.error.type = "VALIDATION_ERROR"

(* A spoofed face is matched with the toggle on and without an error, the
   liveness check never having run. *)
C13_SpoofMatched ==
    /\ request.op = "match"
    /\ request.enable_liveness
    /\ SpoofedFace
    /\ ~request.liveness.ran
    /\ "search" \in request.steps
    /\ request.error = NoError

RejectedByLiveness ==
    /\ request.app_mode = "face"
    /\ request.op = "match"
    /\ request.liveness.ran
    /\ ~request.liveness.passed

(* C14: when a face match request is rejected by the liveness check, the
   validation error returned to the caller states the rejection reason:
   which of the three thresholds triggered the rejection. *)
C14_ErrorStatesReason ==
    RejectedByLiveness =>
        /\ request.error.type = "VALIDATION_ERROR"
        /\ "reject_reason" \in request.error.cites

(* A face rejected for its paper score whose most likely class is "real":
   the error names the score and the label "real" and no threshold. *)
C14_RejectedAsReal ==
    /\ RejectedByLiveness
    /\ request.liveness.reject_reason = "paper_score"
    /\ request.liveness.label = 1
    /\ request.error.cites = {"score", "label_text"}

------------------------------------------------------------------------
(* Claims about the startup of the process *)

RequestServed == request.op \in {"register", "match"}

(* C18: no match or registration request is served before the startup
   reconciliation has run to successful completion, also when the
   reconciliation or the model loading after it raises an error. *)
C18_ReconciliationIsBarrier ==
    RequestServed => server.reconciliation \in {"unchanged", "reset"}

(* A registration succeeds in a process whose reconciliation left the old
   collection in place. *)
C18_ServedUnreconciled ==
    /\ request.op = "register"
    /\ request.error = NoError
    /\ server.reconciliation = "kept"

(* C19: if model loading fails at startup, the startup is aborted and the
   process never reaches the state in which it serves requests. *)
C19_LoadFailureAborts ==
    server.phase = "serving" => server.models \notin {"partial", "missing"}

(* Face mode serves a match with the detectors loaded and the liveness
   detector not: the spoofed face passes unchecked. *)
C19_ServingWithoutLiveness ==
    /\ server.phase = "serving"
    /\ server.models = "partial"
    /\ pipeline.enable_liveness
    /\ C13_SpoofMatched

------------------------------------------------------------------------
(* Claims about failed registrations *)

(* A registration that failed in acquisition, detection or segmentation
   with liveness, or feature extraction: before the record is built. *)
FailedBeforePersistence ==
    /\ request.op = "register"
    /\ request.error # NoError
    /\ request.steps \cap {"model", "insert"} = {}

(* C20: in both modes, if image acquisition, detection or segmentation
   (with liveness) or feature extraction fails during a registration, then
   when the request fails no file has been written and no vector record
   inserted for it. *)
C20_NothingPersisted ==
    FailedBeforePersistence =>
        /\ \A f \in files : f.image_id # request.image_id
        /\ \A r \in collection : r.image_id # request.image_id

(* Object mode: feature extraction fails after the original image was saved *)
C20_OrphanedFile ==
    /\ FailedBeforePersistence
    /\ request.app_mode = "object"
    /\ request.error = ValidationError("Failed to extract features", {})
    /\ UploadFile(request.image_id, "original") \in files
    /\ server.models = "loaded"

------------------------------------------------------------------------
(* Claims about custom_data *)

Fetched == request.op \in {"get_by_image_id", "get_by_object_id", "search_similar"}

(* The value a client supplied in a custom_data form field *)
IsSupplied(form) == form # Absent /\ form # <<>> /\ IsJson(form)

(* A value after json.dumps and json.loads *)
RoundTrip(value) == loads(dumps(value))

(* C16: for every custom_data value supplied at registration, a later fetch
   of the record (by image id, by entity id, or as a member of a match)
   returns custom_data equal to the supplied value after a JSON round
   trip. *)
C16_CustomDataRoundTrip ==
    Fetched =>
        \A item \in request.items : \A sent \in supplied :
            (sent.image_id = item.image_id /\ IsSupplied(sent.custom_data)) =>
                item.custom_data = RoundTrip(loads(sent.custom_data))

(* Object mode: a key-value object sent with the registration comes back
   as {} from a fetch by image id. *)
C16_ObjectModeDropsCustomData ==
    /\ request.op = "get_by_image_id"
    /\ request.app_mode = "object"
    /\ \E item \in request.items : \E sent \in supplied :
          /\ sent.image_id = item.image_id
          /\ sent.custom_data = dumps(JObj(<<Member("k", JAtom("1"))>>))
          /\ item.custom_data = EmptyObject

(* Face mode: a key-value object sent with the registration comes back
   unchanged. *)
C16_FaceModeKeepsObjects ==
    /\ Fetched
    /\ request.app_mode = "face"
    /\ \E item \in request.items : \E sent \in supplied :
          /\ sent.image_id = item.image_id
          /\ sent.custom_data = dumps(JObj(<<Member("k", JAtom("1"))>>))
          /\ item.custom_data = JObj(<<Member("k", JAtom("1"))>>)

------------------------------------------------------------------------
(* Claims about a registration whose insert fails *)

InsertFailed ==
    /\ request.op = "register"
    /\ request.error # NoError
    /\ "insert" \in request.steps

(* C21: if the vector-store insert of a registration with save_files on
   fails (for example on a dimension mismatch), no image file saved for
   that registration remains on disk after the request has failed. *)
C21_NoFileAfterFailedInsert ==
    InsertFailed => \A f \in files : f.image_id # request.image_id

(* Face mode: the insert failed and both saved files are still there *)
C21_FilesLeftBehind ==
    /\ InsertFailed
    /\ request.app_mode = "face"
    /\ "save" \in request.steps
    /\ UploadFile(request.image_id, "original") \in files
    /\ UploadFile(request.image_id, "processed") \in files
    /\ \A r \in collection : r.image_id # request.image_id

------------------------------------------------------------------------
(* Claims about the errors of match and registration requests *)

(* The image of the request could not be acquired: the upload could not be
   opened, or the download failed or gave no valid image. *)
AcquisitionFailed ==
    /\ request.op \in {"register", "match"}
    /\ request.error # NoError
    /\ \/ request.steps = {"open"}
       \/ "acquire" \in request.steps /\ request.steps \cap {"detect", "extract"} = {}

(* C22: a match or registration request whose image cannot be acquired
   (corrupt image bytes, an unreachable or failing URL) ends in a
   ValidationError to the caller, never in an InternalError. *)
C22_AcquisitionFailureIsValidationError ==
    AcquisitionFailed => request.error.type = "VALIDATION_ERROR"

(* An upload that cannot be opened as an image ends in an InternalError *)
C22_CorruptUploadIsInternalError ==
    /\ AcquisitionFailed
    /\ request.op = "match"
    /\ request.steps = {"open"}
    /\ request.error.type = "INTERNAL_ERROR"

NoSubjectFound == request.op = "match" /\ request.subject = "none"

(* C23: in both modes, when detection or segmentation finds no subject in
   the query image, the match request ends with a validation error, issues
   no vector search and returns no results. *)
C23_NoSubjectEndsMatch ==
    NoSubjectFound =>
        /\ request.error.type = "VALIDATION_ERROR"
        /\ "search" \notin request.steps
        /\ request.items = {}

(* Object mode: segmentation left nothing of the query image, the search
   ran all the same and the match returned records. *)
C23_ObjectMatchedWithoutSubject ==
    /\ NoSubjectFound
    /\ request.app_mode = "object"
    /\ request.error = NoError
    /\ "search" \in request.steps
    /\ request.items # {}

(* Face mode: no face detected, the match ended before the search *)
C23_FaceMatchEnded ==
    /\ NoSubjectFound
    /\ request.app_mode = "face"
    /\ request.error = ValidationError("No face detected in query image", {})
    /\ "search" \notin request.steps

------------------------------------------------------------------------
(* Claims about list_objects *)

Listed == last.op = "list_objects"

(* C24: after any sequence of successful registrations and deletions,
   list_objects returns exactly the entity ids that own at least one stored
   record, each once, with image_count equal to the number of records
   stored for that id. *)
C24_ListIsExact ==
    Listed => last.objects = objects_dict(collection)

(* The list request succeeded and the collection holds more records than
   list_objects asks for: an entity is missing or its count is short. *)
C24_ListTruncated ==
    /\ Listed
    /\ last.outcome = "ok"
    /\ Cardinality(collection) > ListLimit
    /\ last.objects # objects_dict(collection)

(* Within the limit a successful list is exact *)
C24_ListWithinLimit ==
    /\ Listed
    /\ last.outcome = "ok"
    /\ Cardinality({r.object_id : r \in collection}) = 2
    /\ last.objects = objects_dict(collection)

------------------------------------------------------------------------
(* Claims about the cascading deletes *)

Deleting == last.op \in {"delete_by_image_id", "delete_by_object_id"}

(* C25: during delete_by_image_id and delete_by_object_id a failure to
   unlink a physical file does not prevent the removal of the corresponding
   vector record: with the store answering, the record is deleted and the
   operation reports it as deleted. *)
C25_UnlinkFailureKeepsDelete ==
    (Deleting /\ ~last.store_failed /\ last.unlink_failed # {}) =>
        /\ \A f \in last.unlink_failed : \A r \in collection : r.image_id # f.image_id
        /\ last.count > 0
        /\ last.response = "none"

(* A file could not be unlinked and is still on disk, its record is gone
   and the delete reported it *)
C25_Witness ==
    /\ Deleting
    /\ ~last.store_failed
    /\ \E f \in last.unlink_failed : f \in files /\ f.image_id \in {r.image_id : r \in last.before}
    /\ last.before # {}
    /\ last.before \cap collection = {}
    /\ last.count = 1


SavedPaths ==
    UNION {{save_upload_image(r.object_id, f.image_id, f.kind) :
               f \in {g \in files : g.image_id = r.image_id}} : r \in collection}

(* C26: for every file path that registration saves under the configured
   upload directory, get_image_url followed by the conversion of the
   deletion side gives the original path, for every configured upload
   path; so a cascading delete locates every file it recorded. *)
C26_UrlRoundTrip ==
    /\ \A saved \in SavedPaths : url_to_path(get_image_url(saved)) = saved
    /\ \A r \in collection : \A f \in files :
         (f.image_id = r.image_id /\ r.img_url /\ f.kind = "original") => f \in FilesOf({r})

(* The upload directory is not a child of data/: the record was deleted
   with every unlink succeeding, and its saved file is still on disk. *)
C26_FileNotLocated ==
    /\ last.op = "delete_by_image_id"
    /\ last.response = "none"
    /\ last.unlink_failed = {}
    /\ upload_path = <<"storage", "upload">>
    /\ \E r \in last.before : [image_id |-> r.image_id, kind |-> "original"] \in files

(* With a directory directly under data/, the default among them, the
   conversion of _delete_physical_files is the inverse *)
C26_RoundTripUnderData ==
    /\ SavedPaths # {}
    /\ parent(upload_path) = <<"data">>
    /\ \A saved \in SavedPaths : url_to_path(get_image_url(saved)) = saved

(* delete_image_files leaves data/ out of the path even for the default
   directory *)
C26_DeleteImageFilesMisses ==
    /\ SavedPaths # {}
    /\ upload_path = DefaultUploadPath
    /\ \A saved \in SavedPaths : delete_image_files(get_image_url(saved)) # saved


(* C29: a vector-store communication failure during the deletion of an
   entity or of a record is surfaced to the caller as an internal error; it
   is never reported as not-found or as a successful deletion, and zero
   matches alone is what yields not-found. *)
C29_StoreFailureIsInternalError ==
    Deleting =>
        /\ last.store_failed => last.response = "INTERNAL_ERROR"
        /\ last.response = "NOT_FOUND" => last.before = {}

(* The store failed while the record was there: the response is not-found
   and the record is still stored *)
C29_FailureReportedNotFound ==
    /\ last.op = "delete_by_image_id"
    /\ last.store_failed
    /\ last.response = "NOT_FOUND"
    /\ last.before # {}
    /\ last.before \subseteq collection

(* The store failed part-way through an entity: some of its records are
   gone and the response is not-found *)
C29_PartDeletedNotFound ==
    /\ last.op = "delete_by_object_id"
    /\ last.store_failed
    /\ last.response = "NOT_FOUND"
    /\ last.before \ collection # {}
    /\ last.before \cap collection # {}

(* Without a failure not-found means that nothing matched *)
C29_NotFoundForNoMatch ==
    /\ Deleting
    /\ ~last.store_failed
    /\ last.response = "NOT_FOUND"
    /\ last.before = {}
    /\ collection # {}

------------------------------------------------------------------------
(* Claims about the reconciliation of the snapshot *)

(* C27: when the active model configuration equals the persisted snapshot
   entry of the current mode, or the snapshot file is missing or
   unreadable, reset_collection_if_needed leaves every record of the
   collection untouched, writes a snapshot whose current-mode entry equals
   the active configuration, and returns False. *)
C27_NoChangeKeepsRecords ==
    [][(last'.op = "restart" /\ last'.old_mode_config \in {active_config', NoConfig}) =>
          /\ collection' = collection
          /\ config_file' = active_config'
          /\ last'.outcome = "false"]_vars

(* A run that could not read the snapshot, with records stored: they are
   all there, the snapshot names the active configuration *)
C27_Witness ==
    /\ last.op = "restart"
    /\ ~last.readable
    /\ last.outcome = "false"
    /\ Cardinality(collection) > 1
    /\ config_file = active_config

(* A run that read an entry equal to the active configuration *)
C27_WitnessEqual ==
    /\ last.op = "restart"
    /\ last.readable
    /\ last.old_mode_config = active_config
    /\ last.outcome = "false"
    /\ collection # {}

(* C28: reconciliation is idempotent: when reset_collection_if_needed runs
   twice in a row with the same active configuration, the second run never
   clears the collection and leaves the snapshot as the first run wrote
   it, whatever the snapshot held before the first run. *)
C28_SecondRunChangesNothing ==
    [][(last.op = "restart" /\ last'.op = "restart" /\ active_config' = active_config) =>
          /\ collection' = collection
          /\ config_file' = config_file
          /\ last'.outcome = "false"]_vars

(* The first of two runs with the same configuration found a change and
   reset, the second one found none *)
C28_Witness ==
    /\ last.op = "restart"
    /\ last.readable
    /\ last.previous.op = "restart"
    /\ last.previous.config = last.config
    /\ last.previous.outcome = "true"
    /\ last.outcome = "false"
    /\ config_file = active_config

------------------------------------------------------------------------
(* Claims about a delete beside a registration *)

DeleteDone == last.op = "delete_by_object_id" /\ last.outcome = "ok"

(* C30: under every interleaving of delete_by_object_id(E) with a
   concurrent registration under the same entity E, each record whose
   vector entry the delete removes also has its physical files removed by
   that delete: no deleted record leaves orphaned files on disk. *)
C30_NoOrphanedFiles ==
    DeleteDone => \A r \in last.removed : \A f \in files : f.image_id # r.image_id

(* The registration saved its files and inserted its record between the
   two queries of the delete: the record is gone, both files are left *)
C30_OrphanedFiles ==
    /\ DeleteDone
    /\ \E r \in last.removed :
         /\ r \notin last.images
         /\ r \notin collection
         /\ UploadFile(r.image_id, "original") \in files
         /\ UploadFile(r.image_id, "processed") \in files

(* Without a registration in between the delete removes records and files
   alike *)
C30_DeleteAlone ==
    /\ DeleteDone
    /\ last.removed # {}
    /\ last.removed = last.images
    /\ \A r \in last.removed : \A f \in files : f.image_id # r.image_id

=============================================================================
